---- MODULE Spec2Model ----
(***************************************************************************)
(* Model of fancy_barchart: the colormap resampling engine (colormaps.py,  *)
(* util.py) and the chart assembly that consumes it (barchart.py).         *)
(*                                                                         *)
(* Numbers.  Channel values are fixed-point: the integer k stands for      *)
(* k / Scale, so the range 0.,...,1. is 0..Scale.  An opacity is the       *)
(* integer o standing for o / OpDen.  Divisions round to nearest.          *)
(*                                                                         *)
(* Python dicts are insertion-ordered: a dict is a sequence of <<key,      *)
(* value>> pairs with distinct keys.  None is the empty sequence and a     *)
(* present optional value x is <<x>>.                                      *)
(***************************************************************************)
EXTENDS Integers, Sequences, FiniteSets, TLC

VARIABLES labAvailable, call, args, ret

vars == <<labAvailable, call, args, ret>>

\* ---------------------------------------------------------------- bounds
Scale == 8
OpDen == 2
MaxOpacity == 3
MaxSteps == 5
MaxStep == 3
MaxKey == 2
MaxEntries == 2
MaxPalette == 6
MaxLen == 1

\* ------------------------------------------------------- generic helpers
Min(a, b) == IF a < b THEN a ELSE b
Max(a, b) == IF a > b THEN a ELSE b

\* x / d rounded to the nearest integer (d > 0)
RoundDiv(x, d) == (2 * x + d) \div (2 * d)

Range(s) == {s[i] : i \in 1..Len(s)}

RECURSIVE Concat(_)
Concat(ss) == IF ss = <<>> THEN <<>> ELSE Head(ss) \o Concat(Tail(ss))

RECURSIVE SumSeq(_)
SumSeq(s) == IF s = <<>> THEN 0 ELSE Head(s) + SumSeq(Tail(s))

\* all sequences over S of length 0..n
SeqsUpTo(S, n) == UNION {[1..k -> S] : k \in 0..n}

\* all sequences over S of length 0..n without repeated elements
InjSeqsUpTo(S, n) == {s \in SeqsUpTo(S, n) : \A i, j \in 1..Len(s) : s[i] = s[j] => i = j}

\* ---------------------------------------------------------------- colors
Blue == <<1, 4, 6>>
LightBlue == <<5, 6, 7>>
Orange == <<8, 4, 0>>
LightOrange == <<8, 6, 4>>
Green == <<2, 5, 1>>
LightGreen == <<5, 7, 4>>
Red == <<Scale, 0, 0>>
White == <<Scale, Scale, Scale>>
Black == <<0, 0, 0>>

\* a qualitative colormap whose successive colors are paired (like tab20)
BaseColors == <<Blue, LightBlue, Orange, LightOrange, Green, LightGreen, Red, White>>

\* ---------------------------------------------------- color-space converter
\* colormaps.py 9-13: skimage's rgb2lab / lab2rgb when the import succeeds,
\* the identity otherwise.  The library conversion is represented by a
\* reversible channel-mixing transform (lifting steps): it is not the
\* identity, its inverse undoes it, and the image of the RGB cube is not a
\* box, so that points computed in the uniform space can leave the gamut.
rgb2lab(lab, c) ==
  IF ~lab THEN c
  ELSE LET co == c[1] - c[3]
           t  == c[3] + (co \div 2)
           cg == c[2] - t
           y  == t + (cg \div 2)
       IN <<y, co, cg>>

lab2rgb(lab, c) ==
  IF ~lab THEN c
  ELSE LET t == c[1] - (c[3] \div 2)
           g == c[3] + t
           b == t - (c[2] \div 2)
           r == b + c[2]
       IN <<r, g, b>>

\* np.clip left out
clip_missing(c) == c

\* np.clip(x, 0, 1) on one color
clip(c) == [i \in 1..3 |-> Max(0, Min(Scale, c[i]))]

\* np.linspace(a, b, n, endpoint=False)
linspace_open(a, b, n) ==
  [i \in 1..n |-> [k \in 1..3 |-> a[k] + RoundDiv((i - 1) * (b[k] - a[k]), n)]]

\* np.linspace(a, b, n) on colors: n evenly spaced points, both ends included
linspace(a, b, n) ==
  [i \in 1..n |-> IF n = 1 THEN a
                  ELSE IF i = n THEN b
                  ELSE [k \in 1..3 |-> a[k] + RoundDiv((i - 1) * (b[k] - a[k]), n - 1)]]

\* ------------------------------------------------------------ interpolators
gradient(lab, rgb1, rgb2, steps) ==
  LET pts == linspace(rgb2lab(lab, rgb1), rgb2lab(lab, rgb2), steps)
  IN [i \in 1..steps |-> clip(lab2rgb(lab, pts[i]))]

\* ([a, b] * ((num + 1) // 2)) without the final [:num]
alternate_untruncated(a, b, num) ==
  [i \in 1..(2 * ((num + 1) \div 2)) |-> IF i % 2 = 1 THEN a ELSE b]

\* util.py: ([a, b] * ((num + 1) // 2))[:num]
alternate(a, b, num) ==
  LET reps == (num + 1) \div 2
      full == [i \in 1..(2 * reps) |-> IF i % 2 = 1 THEN a ELSE b]
  IN SubSeq(full, 1, Min(num, Len(full)))

hatch(lab, rgb1, rgb2, steps) == alternate(rgb1, rgb2, steps)

\* Style.value: the function bound to the style
interpolation_function(style, lab, c1, c2, s) ==
  IF style = "GRADIENT" THEN gradient(lab, c1, c2, s) ELSE hatch(lab, c1, c2, s)

Styles == {"GRADIENT", "HATCH"}

\* ------------------------------------------------------------------ pairing
\* one row of unpaired_target: (1 - opacity) * lab(rgb1) + opacity * lab(rgb2)
unpaired_target(lab, rgb1, rgb2, opacity) ==
  LET l1 == rgb2lab(lab, rgb1)
      l2 == rgb2lab(lab, rgb2)
      mix == [k \in 1..3 |-> RoundDiv((OpDen - opacity) * l1[k] + opacity * l2[k], OpDen)]
  IN clip(lab2rgb(lab, mix))

\* result[::2] and result[1::2] exchanged
paired_swapped(lab, colors, target) ==
  LET paired_colors == [i \in 1..Len(colors) |->
                          unpaired_target(lab, colors[i], target.color, target.opacity)]
  IN [i \in 1..(2 * Len(colors)) |->
        IF i % 2 = 0 THEN colors[i \div 2] ELSE paired_colors[(i + 1) \div 2]]

paired(lab, colors, target) ==
  LET paired_colors == [i \in 1..Len(colors) |->
                          unpaired_target(lab, colors[i], target.color, target.opacity)]
  IN [i \in 1..(2 * Len(colors)) |->
        IF i % 2 = 1 THEN colors[(i + 1) \div 2] ELSE paired_colors[i \div 2]]

\* ---------------------------------------------------------------- resampler
IsDict(steps) == steps.kind = "dict"

\* keys() and values() of an insertion-ordered dict
Keys(d) == [i \in 1..Len(d) |-> d[i][1]]
Values(d) == [i \in 1..Len(d) |-> d[i][2]]

\* max(steps) without the + 1
num_needed_max_only(steps) ==
  IF IsDict(steps)
    THEN CHOOSE m \in Range(Keys(steps.items)) : \A k \in Range(Keys(steps.items)) : k <= m
    ELSE Len(steps.items)

\* max(steps) + 1 if isinstance(steps, dict) else len(steps); the dict is not empty
num_needed(steps) ==
  IF IsDict(steps)
    THEN (CHOOSE m \in Range(Keys(steps.items)) : \A k \in Range(Keys(steps.items)) : k <= m) + 1
    ELSE Len(steps.items)

\* len(colors) // 2
num_given(colors) == Len(colors) \div 2

\* the keys in increasing order
RECURSIVE Sorted(_)
Sorted(keys) ==
  IF keys = <<>> THEN <<>>
  ELSE LET m == CHOOSE i \in 1..Len(keys) : \A j \in 1..Len(keys) : keys[i] <= keys[j]
       IN <<keys[m]>> \o Sorted([i \in 1..(Len(keys) - 1) |-> IF i < m THEN keys[i] ELSE keys[i + 1]])

\* for si in sorted(steps.keys())
selected_colors_sorted(colors, keys) ==
  [i \in 1..(2 * Len(keys)) |->
     LET si == Sorted(keys)[(i + 1) \div 2]
     IN IF i % 2 = 1 THEN colors[2 * si + 1] ELSE colors[2 * si + 2]]

\* [colors[ci] for si in steps.keys() for ci in (2 * si, 2 * si + 1)]   (0-based indices)
selected_colors(colors, keys) ==
  [i \in 1..(2 * Len(keys)) |->
     LET si == keys[(i + 1) \div 2]
     IN IF i % 2 = 1 THEN colors[2 * si + 1] ELSE colors[2 * si + 2]]

\* [f(c1, c2, s) for c1, c2, s in zip(colors[::2], colors[1::2], steps) if s != 0]
RECURSIVE chunks_from(_, _, _, _, _)
chunks_from(style, lab, colors, steps, i) ==
  IF i > Min(Len(colors) \div 2, Len(steps)) THEN <<>>
  ELSE LET rest == chunks_from(style, lab, colors, steps, i + 1)
       IN IF steps[i] # 0
            THEN <<interpolation_function(style, lab, colors[2 * i - 1], colors[2 * i], steps[i])>> \o rest
            ELSE rest

Failure(e) == [err |-> e, colors |-> <<>>]

resampled(lab, steps, color_pairs, style) ==
  LET cmap == color_pairs.map
      colors == IF color_pairs.unpaired # <<>>
                  THEN paired(lab, cmap.colors, color_pairs.unpaired[1])
                  ELSE cmap.colors
      sel == IF IsDict(steps) THEN selected_colors(colors, Keys(steps.items)) ELSE colors
      cnt == IF IsDict(steps) THEN Values(steps.items) ELSE steps.items
      chunks == chunks_from(style, lab, sel, cnt, 1)
  IN IF ~cmap.listed THEN Failure("NotListedColormap")
     ELSE IF IsDict(steps) /\ steps.items = <<>> THEN Failure("MaxOfEmptyDict")
     ELSE IF num_given(colors) < num_needed(steps) THEN Failure("InsufficientPalette")
     ELSE IF IsDict(steps) /\ \E i \in 1..Len(steps.items) : 2 * steps.items[i][1] + 2 > Len(colors)
       THEN Failure("IndexError")  \* colors[ci] past the end; excluded by the check above
     ELSE IF chunks = <<>> THEN Failure("VstackOfNothing")
     ELSE [err |-> "ok", colors |-> Concat(chunks)]

\* -------------------------------------------------------------------- chart
\* dict.get(key): <<value>> if the key is present, <<>> otherwise
Get(d, key) ==
  IF \E i \in 1..Len(d) : d[i][1] = key
    THEN <<d[CHOOSE i \in 1..Len(d) : d[i][1] = key][2]>>
    ELSE <<>>

\* d[key] = value: an existing key keeps its position and takes the new value
Put(d, key, value) ==
  IF \E i \in 1..Len(d) : d[i][1] = key
    THEN [i \in 1..Len(d) |-> IF d[i][1] = key THEN <<key, value>> ELSE d[i]]
    ELSE Append(d, <<key, value>>)

\* list(dict.fromkeys(s)): the distinct elements of s in order of first appearance
RECURSIVE Unique(_)
Unique(s) ==
  IF s = <<>> THEN <<>>
  ELSE LET init == Unique(SubSeq(s, 1, Len(s) - 1))
           last == s[Len(s)]
       IN IF last \in Range(init) THEN init ELSE Append(init, last)

\* dict(zip(keys, values)) for distinct keys
Zip(keys, values) == [i \in 1..Min(Len(keys), Len(values)) |-> <<keys[i], values[i]>>]

all_groups_from(c) == Keys(c)

all_bars_from(c) == Unique(Concat([g \in 1..Len(c) |-> Keys(c[g][2])]))

all_categories_from(c) ==
  Unique(Concat([g \in 1..Len(c) |->
                   Concat([b \in 1..Len(c[g][2]) |-> Keys(c[g][2][b][2])])]))

\* {pair_idx_by_category[cat_name]: len(cat) for cat_name, cat in bar.items()}
RECURSIVE steps_of(_, _, _)
steps_of(bar, pair_idx_by_category, n) ==
  IF n = 0 THEN <<>>
  ELSE Put(steps_of(bar, pair_idx_by_category, n - 1),
           Get(pair_idx_by_category, bar[n][1])[1], Len(bar[n][2]))

resampled_bar(lab, bar_name, bar, color_pairs, pair_idx_by_category, style_by_bar) ==
  resampled(lab, [kind |-> "dict", items |-> steps_of(bar, pair_idx_by_category, Len(bar))],
            color_pairs, Get(style_by_bar, bar_name)[1])

\* {gn: {bn: resampled_bar(bn, bar) for bn, bar in group.items()} for gn, group in c.items()}
colormap_by_bar_from(lab, c, color_pairs, pair_idx_by_category, style_by_bar) ==
  [g \in 1..Len(c) |->
     <<c[g][1], [b \in 1..Len(c[g][2]) |->
                   <<c[g][2][b][1],
                     resampled_bar(lab, c[g][2][b][1], c[g][2][b][2], color_pairs,
                                   pair_idx_by_category, style_by_bar)>>]>>]

\* the error of the first resampled() call that raises, "ok" if none does
first_error(all_colormaps) ==
  LET flat == Concat([g \in 1..Len(all_colormaps) |-> Values(all_colormaps[g][2])])
      bad == {i \in 1..Len(flat) : flat[i].err # "ok"}
  IN IF bad = {} THEN "ok" ELSE flat[CHOOSE i \in bad : \A j \in bad : i <= j].err

\* the values of one bar in drawing order: all_categories outside, the category's values inside
values_in_order(bar, all_categories) ==
  Concat([k \in 1..Len(all_categories) |->
            LET cat == Get(bar, all_categories[k])
            IN IF cat = <<>> THEN <<>>
               ELSE [j \in 1..Len(cat[1]) |-> [cat |-> all_categories[k], val |-> cat[1][j]]]])

\* the ax.barh() calls of one bar; colors[color_i] raises IndexError past the end
draw_bar(group_name, bar_name, bar, colors, all_categories) ==
  LET vals == values_in_order(bar, all_categories)
      n == Min(Len(vals), Len(colors))
  IN [err |-> IF Len(vals) > Len(colors) THEN "IndexError" ELSE "ok",
      segs |-> [i \in 1..n |->
                  [group |-> group_name, bar |-> bar_name, cat |-> vals[i].cat, val |-> vals[i].val,
                   left |-> SumSeq([j \in 1..(i - 1) |-> vals[j].val]), color_i |-> i - 1,
                   color |-> colors[i]]]]

\* the drawing loop over groups and all_bars, from position k of the (group, bar) grid
RECURSIVE draw_from(_, _, _, _, _, _)
draw_from(c, all_bars, all_categories, all_colormaps, bar_names, k) ==
  IF k > Len(c) * Len(all_bars) THEN [err |-> "ok", drawn |-> <<>>, empty |-> <<>>]
  ELSE LET g == ((k - 1) \div Len(all_bars)) + 1
           b == ((k - 1) % Len(all_bars)) + 1
           bar == Get(c[g][2], all_bars[b])
           truthy == bar # <<>> /\ bar[1] # <<>>
           one == IF truthy
                    THEN draw_bar(c[g][1], all_bars[b], bar[1],
                                  Get(all_colormaps[g][2], all_bars[b])[1].colors, all_categories)
                    ELSE [err |-> "ok", segs |-> <<>>]
           container == IF bar_names /\ one.segs = <<>> THEN <<<<c[g][1], all_bars[b]>>>> ELSE <<>>
       IN IF one.err # "ok" THEN [err |-> one.err, drawn |-> one.segs, empty |-> <<>>]
          ELSE LET rest == draw_from(c, all_bars, all_categories, all_colormaps, bar_names, k + 1)
               IN [err |-> rest.err, drawn |-> one.segs \o rest.drawn,
                   empty |-> container \o rest.empty]

Raised(e) == [err |-> e, drawn |-> <<>>, empty |-> <<>>]

chart(lab, c, color_pairs, pair_idxs_arg, styles_arg, group_names, bar_names, legend) ==
  LET all_bars == all_bars_from(c)
      all_categories == all_categories_from(c)
      pair_idxs == IF pair_idxs_arg = <<>> THEN [i \in 1..Len(all_categories) |-> i - 1]
                   ELSE pair_idxs_arg[1]
      styles == IF styles_arg = <<>> THEN alternate("HATCH", "GRADIENT", Len(all_bars))
                ELSE styles_arg[1]
      pair_idx_by_category == Zip(all_categories, pair_idxs)
      style_by_bar == Zip(all_bars, styles)
      all_colormaps == colormap_by_bar_from(lab, c, color_pairs, pair_idx_by_category, style_by_bar)
      loop == draw_from(c, all_bars, all_categories, all_colormaps, bar_names, 1)
  IN IF Len(pair_idxs) < Len(all_categories) THEN Raised("TooFewPairIdxs")
     ELSE IF Len(styles) < Len(all_bars) THEN Raised("TooFewStyles")
     ELSE IF first_error(all_colormaps) # "ok" THEN Raised(first_error(all_colormaps))
     ELSE IF Len(all_bars) = 0 THEN Raised("ZeroDivisionError")
     ELSE IF loop.err # "ok" THEN loop
     ELSE IF ~group_names THEN [loop EXCEPT !.err = "TypeError"]
     ELSE IF legend /\ pair_idx_by_category # <<>> THEN [loop EXCEPT !.err = "AttributeError"]
     ELSE loop

\* ------------------------------------------------------------------- inputs
Opacities == 0..MaxOpacity
InputColors == {Blue, Orange, LightGreen, Red, White, Black}
StepCounts == 0..MaxStep
PairKeys == 0..MaxKey

ListSteps == {[kind |-> "list", items |-> s] : s \in SeqsUpTo(StepCounts, MaxKey + 1)}
DictSteps ==
  UNION {{[kind |-> "dict", items |-> [i \in 1..Len(ks) |-> <<ks[i], vs[i]>>]] :
            vs \in [1..Len(ks) -> StepCounts]} : ks \in InjSeqsUpTo(PairKeys, MaxEntries)}
StepSpecs == ListSteps \cup DictSteps

\* ListedColormaps of every length, and one colormap that is not listed
Cmaps == {[listed |-> TRUE, colors |-> SubSeq(BaseColors, 1, n)] : n \in 0..MaxPalette}
           \cup {[listed |-> FALSE, colors |-> <<>>]}

\* None, the default Target(), and a Target whose opacity is out of range
Targets == {<<>>, <<[color |-> White, opacity |-> 1]>>, <<[color |-> Black, opacity |-> MaxOpacity]>>}

ColorPairsSet == {[map |-> m, unpaired |-> t] : m \in Cmaps, t \in Targets}

\* charts: group name -> bar name -> category name -> values
GroupNames == <<"g1", "g2">>
BarNames == {"b1", "b2"}
CatNames == {"c1", "c2"}
Categories == {[i \in 1..n |-> 1] : n \in 0..MaxLen}
Bars == UNION {{[i \in 1..Len(ns) |-> <<ns[i], vs[i]>>] : vs \in [1..Len(ns) -> Categories]} :
                 ns \in InjSeqsUpTo(CatNames, Cardinality(CatNames))}
Groups == UNION {{[i \in 1..Len(ns) |-> <<ns[i], bs[i]>>] : bs \in [1..Len(ns) -> Bars]} :
                   ns \in InjSeqsUpTo(BarNames, 1)}
Charts == UNION {{[i \in 1..n |-> <<GroupNames[i], gs[i]>>] : gs \in [1..n -> Groups]} :
                   n \in 0..Len(GroupNames)}

ChartColorPairs == {[map |-> [listed |-> TRUE, colors |-> SubSeq(BaseColors, 1, 4)], unpaired |-> <<>>]}
PairIdxsArgs == {<<>>} \cup {<<p>> : p \in SeqsUpTo(0..1, 2)}
StylesArgs == {<<>>, <<<<"GRADIENT">>>>}

\* ------------------------------------------------------------------ actions
Init ==
  /\ labAvailable \in BOOLEAN
  /\ call = "none"
  /\ args = <<>>
  /\ ret = <<>>

CallGradient ==
  /\ call = "none"
  /\ \E c1 \in InputColors, c2 \in InputColors, n \in 0..MaxSteps :
    /\ call' = "gradient"
    /\ args' = [rgb1 |-> c1, rgb2 |-> c2, steps |-> n]
    /\ ret' = gradient(labAvailable, c1, c2, n)
    /\ UNCHANGED labAvailable

CallHatch ==
  /\ call = "none"
  /\ \E c1 \in InputColors, c2 \in InputColors, n \in 0..MaxSteps :
    /\ call' = "hatch"
    /\ args' = [rgb1 |-> c1, rgb2 |-> c2, steps |-> n]
    /\ ret' = hatch(labAvailable, c1, c2, n)
    /\ UNCHANGED labAvailable

CallPaired ==
  /\ call = "none"
  /\ \E cs \in SeqsUpTo(InputColors, 2), tc \in InputColors, o \in Opacities :
    /\ call' = "paired"
    /\ args' = [colors |-> cs, target |-> [color |-> tc, opacity |-> o]]
    /\ ret' = paired(labAvailable, cs, [color |-> tc, opacity |-> o])
    /\ UNCHANGED labAvailable

CallResampled ==
  /\ call = "none"
  /\ \E st \in StepSpecs, cp \in ColorPairsSet, sty \in Styles :
    /\ call' = "resampled"
    /\ args' = [steps |-> st, color_pairs |-> cp, style |-> sty]
    /\ ret' = resampled(labAvailable, st, cp, sty)
    /\ UNCHANGED labAvailable

\* resampled() on a palette of one pair
CallResampledPair ==
  /\ call = "none"
  /\ \E c1 \in InputColors, c2 \in InputColors, n \in 0..MaxSteps, sty \in Styles :
    /\ call' = "resampled"
    /\ args' = [steps |-> [kind |-> "dict", items |-> <<<<0, n>>>>],
                color_pairs |-> [map |-> [listed |-> TRUE, colors |-> <<c1, c2>>], unpaired |-> <<>>],
                style |-> sty]
    /\ ret' = resampled(labAvailable, args'.steps, args'.color_pairs, sty)
    /\ UNCHANGED labAvailable

CallChart ==
  /\ call = "none"
  /\ \E c \in Charts, cp \in ChartColorPairs, pi \in PairIdxsArgs, sa \in StylesArgs,
        gn \in BOOLEAN, bn \in BOOLEAN, lg \in BOOLEAN :
    /\ call' = "chart"
    /\ args' = [c |-> c, color_pairs |-> cp, pair_idxs |-> pi, styles |-> sa,
                group_names |-> gn, bar_names |-> bn, legend |-> lg]
    /\ ret' = chart(labAvailable, c, cp, pi, sa, gn, bn, lg)
    /\ UNCHANGED labAvailable

NextInterp == CallGradient \/ CallHatch \/ CallPaired \/ CallResampledPair
SpecInterp == Init /\ [][NextInterp]_vars

NextResampled == CallResampled
SpecResampled == Init /\ [][NextResampled]_vars

NextChart == CallChart
SpecChart == Init /\ [][NextChart]_vars

\* ==================================================================== claims
\* what a resampled() call was given, read off its arguments
Palette(a) ==
  IF a.color_pairs.unpaired # <<>>
    THEN paired(labAvailable, a.color_pairs.map.colors, a.color_pairs.unpaired[1])
    ELSE a.color_pairs.map.colors
AvailablePairs(a) ==
  (IF a.color_pairs.unpaired # <<>> THEN 2 * Len(a.color_pairs.map.colors)
   ELSE Len(a.color_pairs.map.colors)) \div 2
StepCountsOf(a) == IF a.steps.kind = "dict" THEN Values(a.steps.items) ELSE a.steps.items
NeededDefined(a) == a.steps.kind = "dict" => a.steps.items # <<>>
NeededPairs(a) ==
  IF a.steps.kind = "dict"
    THEN 1 + CHOOSE m \in 0..MaxKey : /\ \E i \in 1..Len(a.steps.items) : a.steps.items[i][1] = m
                                      /\ \A i \in 1..Len(a.steps.items) : a.steps.items[i][1] <= m
    ELSE Len(a.steps.items)
PassesPairCount(a) ==
  a.color_pairs.map.listed /\ NeededDefined(a) /\ AvailablePairs(a) >= NeededPairs(a)
InRange(c) == \A k \in 1..3 : c[k] \in 0..Scale

\* C1: every resampled() call that passes the pair-count check returns a
\* colormap whose length is the sum of the step counts of the selected pairs;
\* zero step counts are never an error, also when all of them are zero.
C1_LengthIsSumOfSteps ==
  (call = "resampled" /\ PassesPairCount(args))
    => (ret.err = "ok" /\ Len(ret.colors) = SumSeq(StepCountsOf(args)))

\* C2: for an index-keyed StepSpec the returned colors are the expansions of
\* the referenced pairs laid out in the mapping's insertion order: the key at
\* iteration position j owns the slice that starts after the step counts of
\* the keys before it, and nothing else is in the output.
C2_InsertionOrder ==
  (call = "resampled" /\ args.steps.kind = "dict" /\ ret.err = "ok")
    => LET items == args.steps.items
           pal == Palette(args)
           off(j) == SumSeq([i \in 1..(j - 1) |-> items[i][2]])
       IN /\ Len(ret.colors) = off(Len(items) + 1)
          /\ \A j \in 1..Len(items) :
               SubSeq(ret.colors, off(j) + 1, off(j) + items[j][2])
                 = interpolation_function(args.style, labAvailable, pal[2 * items[j][1] + 1],
                                          pal[2 * items[j][1] + 2], items[j][2])

\* StepSpec {2: 3, 0: 2} on the paired palette: three colors of pair 2, then two of pair 0
C2_Witness ==
  /\ call = "resampled"
  /\ args.steps = [kind |-> "dict", items |-> <<<<2, 3>>, <<0, 2>>>>]
  /\ args.style = "HATCH"
  /\ args.color_pairs.unpaired = <<>>
  /\ ret.err = "ok"
  /\ ret.colors = <<Green, LightGreen, Green, Blue, LightBlue>>

\* C3: resampled() raises the insufficient-palette error exactly when the
\* number of pairs of the (optionally paired) palette is smaller than the
\* number of pairs needed, and then returns no colormap.
C3_InsufficientPalette ==
  (call = "resampled" /\ args.color_pairs.map.listed /\ NeededDefined(args))
    => /\ (ret.err = "InsufficientPalette") <=> (AvailablePairs(args) < NeededPairs(args))
       /\ (AvailablePairs(args) < NeededPairs(args)) => ret.colors = <<>>

\* a Target doubles two colors to two pairs, key 2 needs three
C3_Witness ==
  /\ call = "resampled"
  /\ args.color_pairs.unpaired # <<>>
  /\ Len(args.color_pairs.map.colors) = 2
  /\ args.steps = [kind |-> "dict", items |-> <<<<2, 1>>>>]
  /\ ret.err = "InsufficientPalette"

\* C5: every channel of every color of a colormap returned by resampled()
\* lies in [0, 1], for both styles, with and without a pairing Target.
C5_ChannelsInRange ==
  (call = "resampled" /\ ret.err = "ok")
    => \A i \in 1..Len(ret.colors) : InRange(ret.colors[i])

\* a Target whose blend leaves the range before it is clamped
C5_Witness ==
  /\ call = "resampled"
  /\ ret.err = "ok"
  /\ args.color_pairs.unpaired # <<>>
  /\ args.color_pairs.unpaired[1].opacity > OpDen
  /\ args.style = "GRADIENT"
  /\ Len(ret.colors) >= 2

\* C6: hatch(colorA, colorB, steps) returns exactly steps colors, colorA at
\* the even 0-based positions and colorB at the odd ones, for every
\* steps >= 0; resampling one pair with style HATCH gives that sequence.
C6_HatchAlternates ==
  /\ call = "hatch"
       => /\ Len(ret) = args.steps
          /\ \A i \in 1..Len(ret) : ret[i] = IF (i - 1) % 2 = 0 THEN args.rgb1 ELSE args.rgb2
          /\ (args.steps % 2 = 1) => ret[Len(ret)] = args.rgb1
  /\ (call = "resampled" /\ args.style = "HATCH" /\ ret.err = "ok")
       => /\ Len(ret.colors) = args.steps.items[1][2]
          /\ \A i \in 1..Len(ret.colors) :
               ret.colors[i] = args.color_pairs.map.colors[2 - (i % 2)]

\* palette [red, blue] with StepSpec {0: 5}
C6_Witness ==
  /\ call = "resampled"
  /\ args.style = "HATCH"
  /\ args.color_pairs.map.colors = <<Red, Blue>>
  /\ args.steps.items = <<<<0, 5>>>>
  /\ ret = [err |-> "ok", colors |-> <<Red, Blue, Red, Blue, Red>>]

\* C7: paired() on N colors returns 2N colors, source i at position 2i and
\* its partner, the clamped blend (1 - opacity) * source + opacity * target
\* taken in the uniform space, at position 2i + 1; opacity 0 leaves the
\* partner equal to the source and opacity 1 makes it the target color.
C7_PairedInterleaves ==
  call = "paired"
    => /\ Len(ret) = 2 * Len(args.colors)
       /\ \A i \in 1..Len(args.colors) :
            /\ ret[2 * i - 1] = args.colors[i]
            /\ ret[2 * i] = unpaired_target(labAvailable, args.colors[i], args.target.color,
                                            args.target.opacity)
            /\ args.target.opacity = 0 => ret[2 * i] = args.colors[i]
            /\ args.target.opacity = OpDen => ret[2 * i] = args.target.color
            /\ InRange(ret[2 * i])

\* pairing [c1, c2] against white with opacity 0, computed in the uniform space
C7_Witness ==
  /\ call = "paired"
  /\ labAvailable
  /\ args = [colors |-> <<Red, Blue>>, target |-> [color |-> White, opacity |-> 0]]
  /\ ret = <<Red, Red, Blue, Blue>>

\* the point i of n on the segment from a to b, as a convex combination
PointOnLine(a, b, i, n) ==
  [k \in 1..3 |-> RoundDiv((n - i) * a[k] + (i - 1) * b[k], n - 1)]

\* C8: gradient(colorA, colorB, steps) returns exactly steps colors for
\* steps >= 1: the first is colorA, the last is colorB when steps >= 2, the
\* colors between are the evenly spaced points of the segment between the
\* endpoints in the uniform space (converted back and clamped), and equal
\* endpoints give steps copies.
C8_GradientEvenlySpaced ==
  (call = "gradient" /\ args.steps >= 1)
    => LET n == args.steps
           a == rgb2lab(labAvailable, args.rgb1)
           b == rgb2lab(labAvailable, args.rgb2)
       IN /\ Len(ret) = n
          /\ ret[1] = args.rgb1
          /\ n >= 2 => ret[n] = args.rgb2
          /\ n >= 2 => \A i \in 1..n : ret[i] = clip(lab2rgb(labAvailable, PointOnLine(a, b, i, n)))
          /\ args.rgb1 = args.rgb2 => \A i \in 1..n : ret[i] = args.rgb1
          /\ \A i \in 1..n : InRange(ret[i])

\* four colors from red to blue, interpolated in the uniform space
C8_Witness ==
  /\ call = "gradient"
  /\ labAvailable
  /\ args = [rgb1 |-> Red, rgb2 |-> Blue, steps |-> 4]
  /\ Len(ret) = 4
  /\ ret[1] = Red /\ ret[4] = Blue
  /\ ret[2] # Red /\ ret[3] # Blue /\ ret[2] # ret[3]

\* ------------------------------------------------------------- chart claims
\* the bar of a group, <<>> when the group has no bar of that name
BarOf(c, g, bar_name) == Get(c[g][2], bar_name)
TotalValues(bar) == SumSeq([i \in 1..Len(bar) |-> Len(bar[i][2])])
PairIdxsOf(a) ==
  IF a.pair_idxs = <<>> THEN [i \in 1..Len(all_categories_from(a.c)) |-> i - 1] ELSE a.pair_idxs[1]
StylesOf(a) ==
  IF a.styles = <<>> THEN alternate("HATCH", "GRADIENT", Len(all_bars_from(a.c))) ELSE a.styles[1]
PairIdxOf(a, cat_name) == Get(Zip(all_categories_from(a.c), PairIdxsOf(a)), cat_name)[1]
StyleOf(a, bar_name) == Get(Zip(all_bars_from(a.c), StylesOf(a)), bar_name)[1]
PassesLengthChecks(a) ==
  /\ Len(PairIdxsOf(a)) >= Len(all_categories_from(a.c))
  /\ Len(StylesOf(a)) >= Len(all_bars_from(a.c))
GroupIndex(c, group_name) == CHOOSE g \in 1..Len(c) : c[g][1] = group_name

\* C4: every value drawn by chart() gets a color from the expansion of the
\* color pair assigned to its own category, in every group and bar, whatever
\* the order in which the bar lists its categories.
C4_OwnColorPair ==
  (call = "chart" /\ ret.err = "ok")
    => \A i \in 1..Len(ret.drawn) :
         LET seg == ret.drawn[i]
             bar == BarOf(args.c, GroupIndex(args.c, seg.group), seg.bar)[1]
             pal == Palette(args)
             idx == PairIdxOf(args, seg.cat)
         IN seg.color \in Range(interpolation_function(StyleOf(args, seg.bar), labAvailable,
                                                       pal[2 * idx + 1], pal[2 * idx + 2],
                                                       Len(Get(bar, seg.cat)[1])))

\* the bars the claim C9 is about: missing from a group, empty, or without values
EmptyOrMissing(c, g, bar_name) ==
  \/ BarOf(c, g, bar_name) = <<>>
  \/ TotalValues(BarOf(c, g, bar_name)[1]) = 0

\* C9: chart() completes without raising when a group lacks a bar other
\* groups have, or holds an empty bar, or a bar whose categories are all
\* empty, and draws each such bar as an empty container.
C9_EmptyBarsAllowed ==
  (/\ call = "chart"
   /\ args.pair_idxs = <<>> /\ args.styles = <<>>
   /\ args.group_names /\ args.bar_names /\ ~args.legend
   /\ all_bars_from(args.c) # <<>>)
    => /\ ret.err = "ok"
       /\ \A g \in 1..Len(args.c) : \A b \in Range(all_bars_from(args.c)) :
            EmptyOrMissing(args.c, g, b) => <<args.c[g][1], b>> \in Range(ret.empty)

\* C10: once chart() has built its colormaps, the colormap of every
\* non-empty bar has exactly as many colors as the bar has values, and the
\* color index never runs past its end, for every pair_idxs that passes the
\* length check.
C10_ColormapCoversBar ==
  (/\ call = "chart"
   /\ PassesLengthChecks(args)
   /\ args.group_names /\ ~args.legend
   /\ ret.err \in {"ok", "IndexError", "TypeError", "AttributeError"})
    => /\ ret.err # "IndexError"
       /\ \A g \in 1..Len(args.c) : \A b \in 1..Len(args.c[g][2]) :
            LET bar == args.c[g][2][b]
            IN bar[2] # <<>> =>
                 Cardinality({i \in 1..Len(ret.drawn) :
                                ret.drawn[i].group = args.c[g][1] /\ ret.drawn[i].bar = bar[1]})
                   = TotalValues(bar[2])

====
